---- MODULE Spec2Model ----
(***************************************************************************)
(* Healthy-Eating: the meals page (daily log reconciler), the get-or-create *)
(* day resolver, the serving-size conversion of the item forms, the         *)
(* nutrition utilities, the recipe editor and the recipe selector.          *)
(*                                                                          *)
(* Units: calories are integers; protein, carbs, fat, fiber and water are   *)
(* kept in tenths (the code rounds them to one decimal place), so 1.5 g is  *)
(* 15.  Serving quantities are kept in quarters (the inputs step by 0.25).  *)
(***************************************************************************)
EXTENDS Integers, Sequences, FiniteSets, TLC

VARIABLES
    \* ---- meals page: the store (supabase) ----
    db_meals,        \* rows of table meals of the day's log
    db_meal_items,   \* rows of table meal_items
    db_daily_log,    \* the daily_logs row of the selected date
    \* ---- meals page: React state ----
    dailyLog,        \* useState<DailyLog | null>   (id = 0 stands for null)
    meals,           \* useState<Meal[]>, each meal with its meal_items
    currentMeal,     \* MealSection: id of the meal whose form is open, 0 for null
    isAddingItem,    \* MealSection: the item form is shown
    \* ---- meals page: asynchronous work ----
    ops,             \* handlers suspended at an await
    pending,         \* fire-and-forget daily_logs updates not yet served
    nextId,          \* next row id the store hands out
    gestures,        \* user gestures so far (bounds the exploration)
    \* ---- get-or-create day resolver (fetchDayData): the store ----
    weekStartsOn,    \* the week start day of the build's getWeekStart (0 Sun, 3 Wed)
    db_weeks,        \* rows of table weeks of the user
    db_daily_logs,   \* rows of table daily_logs of the user
    nextRowId,       \* next row id the store hands out
    \* ---- get-or-create day resolver: one activation of fetchDayData each ----
    pc,              \* where each activation stands
    log,             \* its local "log" (id of the row, 0 for null)
    week,            \* the week findOrCreateWeek has found so far (0 for none)
    createError,     \* its local createError values
    \* ---- item forms (MealItemForm, RecipeItemForm) ----
    formKind,        \* which form is mounted: "meal" or "recipe"
    baseNutrition,   \* useState<BaseNutrition | null>  (NoBase stands for null)
    serving,         \* form value serving, in quarters
    unit,            \* form value unit
    nutrition,       \* the displayed form values calories ... water
    servingInfo,     \* RecipeItemForm: useState<string | null>  ("" stands for null)
    selected,        \* the search result last handed to handleSelectFood, if any
    \* ---- nutrition utilities: one call of calculateDailyTotals ----
    mealsArg,        \* the argument meals: Meal[]
    dailyTotals,     \* what the call returned, once it has
    \* ---- nutrition utilities: one call of getGoalStatus ----
    goalArgs,        \* the arguments actual and goal
    goalStatus,      \* the percentage it computed and what it returned, once it has
    \* ---- recipe editor (EditRecipePage) ----
    db_recipe_items, \* rows of table recipe_items of the recipe
    ingredients,     \* useState<RecipeIngredient[]>
    removal,         \* handleRemoveIngredient suspended at its await, if any
    submit,          \* where onSubmit stands, and the ingredients it closed over
    nextItemId,      \* next row id the store hands out
    edits,           \* user gestures so far (bounds the exploration)
    \* ---- recipe selector (RecipeSelector), open on one meal in two tabs ----
    db_items,        \* rows of table meal_items of the meal, as the store keeps them
    tabs,            \* each tab's handleAddRecipe: where it stands, its recipe, nextOrder
    nextTabRow       \* next row id the store hands out
pageVars == <<db_meals, db_meal_items, db_daily_log, dailyLog, meals,
              currentMeal, isAddingItem, ops, pending, nextId, gestures>>

resolveVars == <<weekStartsOn, db_weeks, db_daily_logs, nextRowId, pc, log, week,
                 createError>>

formVars == <<formKind, baseNutrition, serving, unit, nutrition, servingInfo, selected>>

utilVars == <<mealsArg, dailyTotals, goalArgs, goalStatus>>

recipeVars == <<db_recipe_items, ingredients, removal, submit, nextItemId, edits>>

selectorVars == <<db_items, tabs, nextTabRow>>

vars == <<pageVars, resolveVars, formVars, utilVars, recipeVars, selectorVars>>

---------------------------------------------------------------------------
(* Bounds of the model *)
MaxGestures == 2  \* user gestures (clicks, submits, edits) in one behaviour

---------------------------------------------------------------------------
(* Nutrition values *)

ZeroTotals ==
    [calories |-> 0, carbs |-> 0, fat |-> 0, fiber |-> 0, protein |-> 0, water |-> 0]

\* What the forms submit in this model: a food carrying water (MealItemForm),
\* a recipe serving (RecipeSelector, water: 0) and a note (NoteForm, all zero).
FoodProfile ==
    [calories |-> 30, carbs |-> 70, fat |-> 0, fiber |-> 10, protein |-> 5, water |-> 40]
RecipeProfile ==
    [calories |-> 105, carbs |-> 0, fat |-> 110, fiber |-> 0, protein |-> 15, water |-> 0]

RECURSIVE SumItems(_)
SumItems(items) ==
    IF items = {} THEN ZeroTotals
    ELSE LET item == CHOOSE i \in items : TRUE
             rest == SumItems(items \ {item})
         IN  [calories |-> rest.calories + item.calories,
              carbs    |-> rest.carbs + item.carbs,
              fat      |-> rest.fat + item.fat,
              fiber    |-> rest.fiber + item.fiber,
              protein  |-> rest.protein + item.protein,
              water    |-> rest.water + item.water]

AllItems(ms) == UNION { m.meal_items : m \in ms }

calculateDailyTotals(ms) == SumItems(AllItems(ms))

---------------------------------------------------------------------------
(* The store *)

NoLog ==
    [id |-> 0, total_calories |-> 0, total_carbs |-> 0, total_fat |-> 0,
     total_fiber |-> 0, total_protein |-> 0, water_intake |-> 0, is_locked |-> FALSE]

NewLog == [NoLog EXCEPT !.id = 1]

\* select *, meal_items(*) from meals where daily_log_id = log.id
SelectMeals ==
    { [id |-> m.id, meal_order |-> m.meal_order,
       meal_items |-> { i \in db_meal_items : i.meal_id = m.id }] : m \in db_meals }

\* select "order" from meal_items where meal_id = m order by "order" desc limit 1
MaxOrder(m) ==
    LET os == { i.order : i \in { j \in db_meal_items : j.meal_id = m } }
    IN  IF os = {} THEN 0 ELSE CHOOSE o \in os : \A p \in os : p <= o

WithTotals(row, totals) ==
    [row EXCEPT !.total_calories = totals.calories,
                !.total_carbs = totals.carbs,
                !.total_fat = totals.fat,
                !.total_fiber = totals.fiber,
                !.total_protein = totals.protein,
                !.water_intake = totals.water]

TotalsWrite(totals) == [kind |-> "totals", totals |-> totals, is_locked |-> FALSE, water |-> 0]
\* a lock toggle that writes the totals columns as well
LockWrite_whole(b) == [kind |-> "totals", totals |-> ZeroTotals, is_locked |-> b, water |-> 0]
LockWrite(b) == [kind |-> "lock", totals |-> ZeroTotals, is_locked |-> b, water |-> 0]
WaterWrite(w) == [kind |-> "water", totals |-> ZeroTotals, is_locked |-> FALSE, water |-> w]

ApplyWrite(row, w) ==
    CASE w.kind = "totals" -> WithTotals(row, w.totals)
      [] w.kind = "lock"   -> [row EXCEPT !.is_locked = w.is_locked]
      [] w.kind = "water"  -> [row EXCEPT !.water_intake = w.water]

---------------------------------------------------------------------------
(* Meals page: derived values and what the JSX renders *)

NoItem ==
    [id |-> 0, meal_id |-> 0, order |-> 0, calories |-> 0, carbs |-> 0, fat |-> 0,
     fiber |-> 0, protein |-> 0, water |-> 0]

NewItem(id, m, p) ==
    [id |-> id, meal_id |-> m, order |-> 0, calories |-> p.calories, carbs |-> p.carbs,
     fat |-> p.fat, fiber |-> p.fiber, protein |-> p.protein, water |-> p.water]

\* const isLocked = dailyLog?.is_locked ?? false
isLocked == dailyLog.is_locked

\* {!isLocked && <button onClick={() => handleDeleteMeal(meal.id)}>}
DeleteMealShown(locked) == ~locked
\* a MealSection that shows the delete-item button whatever the lock
DeleteItemShown_unguarded(locked) == TRUE
\* {!isLocked && <button onClick={() => handleDeleteItem(meal.id, item.id)}>}
DeleteItemShown(locked) == ~locked
\* {!isLocked && (currentMeal?.id === meal.id && isAddingItem ? <form> : <+ Add item>)}
AddItemShown(locked) == ~locked
\* {!isLocked && (!currentMeal || !isAddingItem) && <button onClick={handleAddMeal}>}
AddMealShown(locked) == ~locked /\ (currentMeal = 0 \/ ~isAddingItem)
\* {dailyLog && ( ... <button onClick={toggleLock}> ... )}
LockToggleShown == dailyLog.id # 0
\* a water panel that keeps its controls on a locked day
WaterControlsShown_unguarded(locked) == dailyLog.id # 0
\* {dailyLog && ( ... {isLocked ? <p>{water} oz</p> : <buttons and input>} )}
WaterControlsShown(locked) == dailyLog.id # 0 /\ ~locked

MealIds(ms) == { m.id : m \in ms }

\* The fields of the captured dailyLog that survive setDailyLog({...dailyLog, totals}).
\* An op also carries seq, the number of the gesture that started it, which keeps
\* two invocations of one handler with equal arguments apart.
Closure(row) == [NoLog EXCEPT !.id = row.id, !.is_locked = row.is_locked]

NewOp(kind, phase, m, item, order) ==
    [kind |-> kind, phase |-> phase, meal |-> m, item |-> item, order |-> order,
     form |-> "none", cap |-> Closure(dailyLog), seq |-> gestures]

\* a user gesture / a step of the store and the continuation it resumes
Gesture ==
    gestures < MaxGestures /\ gestures' = gestures + 1
    /\ UNCHANGED <<resolveVars, formVars, utilVars, recipeVars, selectorVars>>
Served == UNCHANGED gestures /\ UNCHANGED <<resolveVars, formVars, utilVars, recipeVars, selectorVars>>

---------------------------------------------------------------------------
(* Meals page: the handlers *)

\* a recalculation that keeps the totals the log already shows
RecalcLog_kept(updatedMeals) == dailyLog

\* recalcAndUpdateTotals(updatedMeals): the new value of dailyLog and of pending
RecalcLog(updatedMeals) ==
    IF dailyLog.id # 0 THEN WithTotals(dailyLog, calculateDailyTotals(updatedMeals))
    ELSE dailyLog

RecalcPending(updatedMeals) ==
    IF dailyLog.id # 0 THEN pending \cup {TotalsWrite(calculateDailyTotals(updatedMeals))}
    ELSE pending

recalcAndUpdateTotals(updatedMeals) ==
    /\ meals' = updatedMeals
    /\ dailyLog' = RecalcLog(updatedMeals)
    /\ pending' = RecalcPending(updatedMeals)

\* MealSection.handleAddMeal up to its await
handleAddMeal ==
    /\ Gesture
    /\ AddMealShown(isLocked)
    /\ dailyLog.id # 0
    /\ ops' = ops \cup {NewOp("addMeal", "insert", 0, NoItem, Cardinality(meals) + 1)}
    /\ UNCHANGED <<db_meals, db_meal_items, db_daily_log, dailyLog, meals,
                   currentMeal, isAddingItem, pending, nextId>>

\* the insert into meals is served; handleAddMeal resumes
AddMealServed(o, ok) ==
    /\ Served
    /\ o \in ops /\ o.kind = "addMeal"
    /\ ops' = ops \ {o}
    /\ IF ok
       THEN /\ db_meals' = db_meals \cup {[id |-> nextId, meal_order |-> o.order]}
            /\ meals' = meals \cup {[id |-> nextId, meal_order |-> o.order, meal_items |-> {}]}
            /\ currentMeal' = nextId
            /\ isAddingItem' = TRUE
            /\ nextId' = nextId + 1
       ELSE UNCHANGED <<db_meals, meals, currentMeal, isAddingItem, nextId>>
    /\ UNCHANGED <<db_meal_items, db_daily_log, dailyLog, pending>>

\* MealSection.handleAddItemToMeal (through the add menu)
handleAddItemToMeal(m) ==
    /\ Gesture
    /\ AddItemShown(isLocked)
    /\ m \in MealIds(meals)
    /\ ~(currentMeal = m /\ isAddingItem)
    /\ currentMeal' = m
    /\ isAddingItem' = TRUE
    /\ UNCHANGED <<db_meals, db_meal_items, db_daily_log, dailyLog, meals, ops,
                   pending, nextId>>

\* the form's onCancel
onCancel ==
    /\ Gesture
    /\ AddItemShown(isLocked)
    /\ currentMeal \in MealIds(meals) /\ isAddingItem
    /\ currentMeal' = 0
    /\ isAddingItem' = FALSE
    /\ UNCHANGED <<db_meals, db_meal_items, db_daily_log, dailyLog, meals, ops,
                   pending, nextId>>

FormInputs ==
    { <<"food", FoodProfile>>, <<"recipe", RecipeProfile>>, <<"note", ZeroTotals>> }

\* onSubmit of MealItemForm / RecipeSelector.handleAddRecipe / NoteForm.handleSave,
\* up to the first await (the read of the largest order)
onSubmit(f, p) ==
    /\ Gesture
    /\ AddItemShown(isLocked)
    /\ currentMeal \in MealIds(meals) /\ isAddingItem
    /\ \A o \in ops : o.kind # "addItem"          \* the submit button is disabled while loading
    /\ ops' = ops \cup
         {[NewOp("addItem", "order", currentMeal, NewItem(0, currentMeal, p), 0)
             EXCEPT !.form = f]}
    /\ UNCHANGED <<db_meals, db_meal_items, db_daily_log, dailyLog, meals,
                   currentMeal, isAddingItem, pending, nextId>>

\* the select of the largest order is served
SubmitOrderServed(o, ok) ==
    /\ Served
    /\ o \in ops /\ o.kind = "addItem" /\ o.phase = "order"
    /\ ops' = IF ok
              THEN (ops \ {o}) \cup
                     {[o EXCEPT !.phase = "insert", !.item.order = MaxOrder(o.meal) + 1]}
              ELSE ops \ {o}
    /\ UNCHANGED <<db_meals, db_meal_items, db_daily_log, dailyLog, meals,
                   currentMeal, isAddingItem, pending, nextId>>

\* MealSection.handleSaveItem up to the await inside updateDailyTotals
handleSaveItem(o) ==
    /\ isAddingItem' = FALSE
    /\ currentMeal' = 0
    /\ ops' = IF o.cap.id # 0
              THEN (ops \ {o}) \cup {[o EXCEPT !.phase = "refetch"]}
              ELSE ops \ {o}

\* the insert into meal_items is served (it needs the meal row: foreign key)
SubmitInsertServed(o, ok) ==
    /\ Served
    /\ o \in ops /\ o.kind = "addItem" /\ o.phase = "insert"
    /\ ok => o.meal \in MealIds(db_meals)
    /\ IF ok
       THEN /\ db_meal_items' = db_meal_items \cup {[o.item EXCEPT !.id = nextId]}
            /\ nextId' = nextId + 1
            /\ IF o.form = "food"
               THEN /\ ops' = (ops \ {o}) \cup {[o EXCEPT !.phase = "library"]}
                    /\ UNCHANGED <<currentMeal, isAddingItem>>
               ELSE handleSaveItem(o)
       ELSE /\ ops' = ops \ {o}
            /\ UNCHANGED <<db_meal_items, currentMeal, isAddingItem, nextId>>
    /\ UNCHANGED <<db_meals, db_daily_log, dailyLog, meals, pending>>

\* MealItemForm.onSubmit: the lookup / insert in the personal food library is served
SubmitLibraryServed(o, ok) ==
    /\ Served
    /\ o \in ops /\ o.kind = "addItem" /\ o.phase = "library"
    /\ IF ok
       THEN handleSaveItem(o)
       ELSE /\ ops' = ops \ {o}
            /\ UNCHANGED <<currentMeal, isAddingItem>>
    /\ UNCHANGED <<db_meals, db_meal_items, db_daily_log, dailyLog, meals, pending, nextId>>

\* const freshMeals = mealsData || []; setMeals(freshMeals)
FreshMeals == SelectMeals

\* updateDailyTotals from its select being served to its end
updateDailyTotals(o, ok) ==
    /\ Served
    /\ o \in ops /\ o.phase = "refetch"
    /\ ops' = ops \ {o}
    /\ IF ok
       THEN /\ meals' = FreshMeals
            /\ dailyLog' = WithTotals(o.cap, calculateDailyTotals(FreshMeals))
            /\ pending' = pending \cup {TotalsWrite(calculateDailyTotals(FreshMeals))}
       ELSE UNCHANGED <<meals, dailyLog, pending>>
    /\ UNCHANGED <<db_meals, db_meal_items, db_daily_log, currentMeal, isAddingItem, nextId>>

\* page.handleDeleteItem: the meals without the item
\* a removal that leaves the list as it is
WithoutItem_kept(mealId, itemId) == meals

WithoutItem(mealId, itemId) ==
    { IF meal.id # mealId THEN meal
      ELSE [meal EXCEPT !.meal_items = { item \in meal.meal_items : item.id # itemId }]
      : meal \in meals }

\* MealSection.handleDeleteItem up to its await: the optimistic removal
\* (page.handleDeleteItem, recalcAndUpdateTotals), then the delete request
handleDeleteItem(mealId, itemId) ==
    /\ Gesture
    /\ DeleteItemShown(isLocked)
    /\ \E meal \in meals : meal.id = mealId /\ itemId \in { i.id : i \in meal.meal_items }
    /\ recalcAndUpdateTotals(WithoutItem(mealId, itemId))
    /\ ops' = ops \cup {NewOp("delItem", "delete", mealId, [NoItem EXCEPT !.id = itemId], 0)}
    /\ UNCHANGED <<db_meals, db_meal_items, db_daily_log, currentMeal, isAddingItem, nextId>>

\* a catch block that only drops the handler
OnDeleteFailed_silent(o) == ops \ {o}
\* what follows a failed delete: catch { await onUpdate() }
OnDeleteFailed(o) ==
    IF o.cap.id # 0 THEN (ops \ {o}) \cup {[o EXCEPT !.phase = "refetch"]} ELSE ops \ {o}

\* the delete from meal_items where id = itemId is served
DeleteItemServed(o, ok) ==
    /\ Served
    /\ o \in ops /\ o.kind = "delItem" /\ o.phase = "delete"
    /\ IF ok
       THEN /\ db_meal_items' = { i \in db_meal_items : i.id # o.item.id }
            /\ ops' = ops \ {o}
       ELSE /\ ops' = OnDeleteFailed(o)
            /\ UNCHANGED db_meal_items
    /\ UNCHANGED <<db_meals, db_daily_log, dailyLog, meals, currentMeal, isAddingItem,
                   pending, nextId>>

\* MealSection.handleDeleteMeal up to its first await
handleDeleteMeal(mealId) ==
    /\ Gesture
    /\ DeleteMealShown(isLocked)
    /\ mealId \in MealIds(meals)
    /\ IF currentMeal = mealId
       THEN isAddingItem' = FALSE /\ currentMeal' = 0
       ELSE UNCHANGED <<isAddingItem, currentMeal>>
    /\ recalcAndUpdateTotals({ meal \in meals : meal.id # mealId })
    /\ ops' = ops \cup {NewOp("delMeal", "items", mealId, NoItem, 0)}
    /\ UNCHANGED <<db_meals, db_meal_items, db_daily_log, nextId>>

\* a handler that ignores itemsError
AfterItemsDelete_unchecked(o, ok) == (ops \ {o}) \cup {[o EXCEPT !.phase = "meal"]}
\* if (itemsError) throw itemsError; otherwise go on to delete the meal row
AfterItemsDelete(o, ok) ==
    IF ok THEN (ops \ {o}) \cup {[o EXCEPT !.phase = "meal"]} ELSE OnDeleteFailed(o)

\* the delete from meal_items where meal_id = mealId is served
DeleteMealItemsServed(o, ok) ==
    /\ Served
    /\ o \in ops /\ o.kind = "delMeal" /\ o.phase = "items"
    /\ db_meal_items' = IF ok THEN { i \in db_meal_items : i.meal_id # o.meal }
                        ELSE db_meal_items
    /\ ops' = AfterItemsDelete(o, ok)
    /\ UNCHANGED <<db_meals, db_daily_log, dailyLog, meals, currentMeal, isAddingItem,
                   pending, nextId>>

\* the delete from meals where id = mealId is served (meal_items cascade)
DeleteMealRowServed(o, ok) ==
    /\ Served
    /\ o \in ops /\ o.kind = "delMeal" /\ o.phase = "meal"
    /\ IF ok
       THEN /\ db_meals' = { m \in db_meals : m.id # o.meal }
            /\ db_meal_items' = { i \in db_meal_items : i.meal_id # o.meal }
            /\ ops' = ops \ {o}
       ELSE /\ ops' = OnDeleteFailed(o)
            /\ UNCHANGED <<db_meals, db_meal_items>>
    /\ UNCHANGED <<db_daily_log, dailyLog, meals, currentMeal, isAddingItem, pending, nextId>>

\* toggleLock
toggleLock ==
    /\ Gesture
    /\ LockToggleShown
    /\ dailyLog' = [dailyLog EXCEPT !.is_locked = ~dailyLog.is_locked]
    /\ pending' = pending \cup {LockWrite(~dailyLog.is_locked)}
    /\ UNCHANGED <<db_meals, db_meal_items, db_daily_log, meals, currentMeal,
                   isAddingItem, ops, nextId>>

\* rounding down to one decimal place
RoundWater_down(newAmount) == newAmount \div 10

\* Math.round(newAmount * 10) / 10, newAmount in hundredths, the result in tenths
RoundWater(newAmount) == (newAmount + 5) \div 10

\* what the input field can hand to updateWaterIntake (hundredths of oz)
DirectWater == {-100, 4, 795}

\* the amounts the three water controls pass to updateWaterIntake (hundredths)
WaterInputs ==
    {dailyLog.water_intake * 10 + 800} \cup DirectWater \cup
    (IF dailyLog.water_intake > 0 THEN {dailyLog.water_intake * 10 - 800} ELSE {})

\* updateWaterIntake(newAmount)
updateWaterIntake(newAmount) ==
    /\ Gesture
    /\ WaterControlsShown(isLocked)
    /\ newAmount \in WaterInputs
    /\ ~(dailyLog.id = 0 \/ newAmount < 0)
    /\ dailyLog' = [dailyLog EXCEPT !.water_intake = RoundWater(newAmount)]
    /\ pending' = pending \cup {WaterWrite(RoundWater(newAmount))}
    /\ UNCHANGED <<db_meals, db_meal_items, db_daily_log, meals, currentMeal,
                   isAddingItem, ops, nextId>>

\* a background update of daily_logs is served; a failure is only logged
PersistServed(w, ok) ==
    /\ Served
    /\ w \in pending
    /\ pending' = pending \ {w}
    /\ db_daily_log' = IF ok THEN ApplyWrite(db_daily_log, w) ELSE db_daily_log
    /\ UNCHANGED <<db_meals, db_meal_items, dailyLog, meals, currentMeal, isAddingItem,
                   ops, nextId>>

---------------------------------------------------------------------------
(* Get-or-create day resolver: fetchDayData and findOrCreateWeek.  Dates are *)
(* day numbers, day d falling on weekday d % 7 (0 is Sunday).                *)

Resolvers == {1, 2}

\* the date both activations resolve
selectedDate == 11

\* startOfWeek(date, { weekStartsOn })
getWeekStart(date, startsOn) == date - (((date % 7) + 7 - startsOn) % 7)

weekStartStr == getWeekStart(selectedDate, weekStartsOn)
\* a week that ends five days after its start
weekEndStr_short == weekStartStr + 5
\* formatDateForDB(addDays(weekStartDate, 6))
weekEndStr == weekStartStr + 6

\* .single(): the row when exactly one row matches, null (0) otherwise
Single(rows) == IF Cardinality(rows) = 1 THEN (CHOOSE row \in rows : TRUE).id ELSE 0

\* from weeks where start_date = weekStartStr
ExactWeek == { w \in db_weeks : w.start_date = weekStartStr }
\* a resolver whose range query never finds a week
RangeWeek_exactOnly == {}
\* from weeks where start_date <= selectedDate and end_date >= selectedDate
RangeWeek == { w \in db_weeks : w.start_date <= selectedDate /\ w.end_date >= selectedDate }
\* from daily_logs where log_date = selectedDate
LogOfDate == { l \in db_daily_logs : l.log_date = selectedDate }

\* a weeks table without its unique constraint
WeekUniqueViolated_absent(start) == FALSE
\* UNIQUE(user_id, start_date) refuses the insert (error 23505)
WeekUniqueViolated(start) == \E w \in db_weeks : w.start_date = start
\* a daily_logs table without its unique constraint
LogUniqueViolated_absent(date) == FALSE
\* UNIQUE(user_id, log_date) refuses the insert (error 23505)
LogUniqueViolated(date) == \E l \in db_daily_logs : l.log_date = date

NoError == [week |-> "none", log |-> "none"]

Goto(r, label) == pc' = [pc EXCEPT ![r] = label]

ResolveStep ==
    UNCHANGED <<pageVars, formVars, utilVars, recipeVars, selectorVars, weekStartsOn>>

\* fetchDayData: 1. look up the existing daily log
ReadLog(r) ==
    /\ pc[r] = "readLog"
    /\ log' = [log EXCEPT ![r] = Single(LogOfDate)]
    /\ IF Single(LogOfDate) # 0 THEN Goto(r, "fetchMeals") ELSE Goto(r, "exactWeek")
    /\ UNCHANGED <<db_weeks, db_daily_logs, nextRowId, week, createError>>
    /\ ResolveStep

\* findOrCreateWeek: try the exact start_date match first
ReadExactWeek(r) ==
    /\ pc[r] = "exactWeek"
    /\ week' = [week EXCEPT ![r] = Single(ExactWeek)]
    /\ IF Single(ExactWeek) # 0 THEN Goto(r, "insertLog") ELSE Goto(r, "rangeWeek")
    /\ UNCHANGED <<db_weeks, db_daily_logs, nextRowId, log, createError>>
    /\ ResolveStep

\* findOrCreateWeek: try the range match
ReadRangeWeek(r) ==
    /\ pc[r] = "rangeWeek"
    /\ week' = [week EXCEPT ![r] = Single(RangeWeek)]
    /\ IF Single(RangeWeek) # 0 THEN Goto(r, "insertLog") ELSE Goto(r, "insertWeek")
    /\ UNCHANGED <<db_weeks, db_daily_logs, nextRowId, log, createError>>
    /\ ResolveStep

\* findOrCreateWeek: create the new week
InsertWeek(r) ==
    /\ pc[r] = "insertWeek"
    /\ IF WeekUniqueViolated(weekStartStr)
       THEN /\ createError' = [createError EXCEPT ![r].week = "23505"]
            /\ Goto(r, "rereadWeek")
            /\ UNCHANGED <<db_weeks, nextRowId, week>>
       ELSE /\ db_weeks' = db_weeks \cup
                 {[id |-> nextRowId, start_date |-> weekStartStr, end_date |-> weekEndStr]}
            /\ nextRowId' = nextRowId + 1
            /\ week' = [week EXCEPT ![r] = nextRowId]
            /\ Goto(r, "insertLog")
            /\ UNCHANGED createError
    /\ UNCHANGED <<db_daily_logs, log>>
    /\ ResolveStep

\* findOrCreateWeek: after 23505 read the week again; throw when it is not there
RereadWeek(r) ==
    /\ pc[r] = "rereadWeek"
    /\ week' = [week EXCEPT ![r] = Single(ExactWeek)]
    /\ IF Single(ExactWeek) # 0 THEN Goto(r, "insertLog") ELSE Goto(r, "error")
    /\ UNCHANGED <<db_weeks, db_daily_logs, nextRowId, log, createError>>
    /\ ResolveStep

\* fetchDayData: 2. create the daily log with zeroed totals
InsertLog(r) ==
    /\ pc[r] = "insertLog"
    /\ IF LogUniqueViolated(selectedDate)
       THEN /\ createError' = [createError EXCEPT ![r].log = "23505"]
            /\ Goto(r, "rereadLog")
            /\ UNCHANGED <<db_daily_logs, nextRowId, log>>
       ELSE /\ db_daily_logs' = db_daily_logs \cup
                 {[id |-> nextRowId, week_id |-> week[r], log_date |-> selectedDate,
                   totals |-> ZeroTotals]}
            /\ nextRowId' = nextRowId + 1
            /\ log' = [log EXCEPT ![r] = nextRowId]
            /\ Goto(r, "fetchMeals")
            /\ UNCHANGED createError
    /\ UNCHANGED <<db_weeks, week>>
    /\ ResolveStep

\* fetchDayData: after 23505 read the log again; log = existingLog
RereadLog(r) ==
    /\ pc[r] = "rereadLog"
    /\ log' = [log EXCEPT ![r] = Single(LogOfDate)]
    /\ Goto(r, "fetchMeals")
    /\ UNCHANGED <<db_weeks, db_daily_logs, nextRowId, week, createError>>
    /\ ResolveStep

\* fetchDayData: setDailyLog(log), then 3. fetch the meals by log.id (throws on null)
FetchMeals(r) ==
    /\ pc[r] = "fetchMeals"
    /\ IF log[r] # 0 THEN Goto(r, "done") ELSE Goto(r, "error")
    /\ UNCHANGED <<db_weeks, db_daily_logs, nextRowId, log, week, createError>>
    /\ ResolveStep

\* the resolver at rest, for the specifications that do not run it
ResolveIdle ==
    /\ weekStartsOn = 3
    /\ db_weeks = {}
    /\ db_daily_logs = {}
    /\ nextRowId = 1
    /\ pc = [r \in Resolvers |-> "done"]
    /\ log = [r \in Resolvers |-> 0]
    /\ week = [r \in Resolvers |-> 0]
    /\ createError = [r \in Resolvers |-> NoError]

\* the weeks the store may already hold: none, the Sunday week or the Wednesday week
StoredWeeks ==
    { {},
      {[id |-> 1, start_date |-> getWeekStart(selectedDate, 0),
        end_date |-> getWeekStart(selectedDate, 0) + 6]},
      {[id |-> 1, start_date |-> getWeekStart(selectedDate, 3),
        end_date |-> getWeekStart(selectedDate, 3) + 6]},
      {[id |-> 1, start_date |-> getWeekStart(selectedDate, 0),
        end_date |-> getWeekStart(selectedDate, 0) + 6],
       [id |-> 2, start_date |-> getWeekStart(selectedDate, 3),
        end_date |-> getWeekStart(selectedDate, 3) + 6]} }

\* the idle page, for the specifications that do not run it
PageIdle ==
    /\ db_meals = {}
    /\ db_meal_items = {}
    /\ db_daily_log = NoLog
    /\ dailyLog = NoLog
    /\ meals = {}
    /\ currentMeal = 0
    /\ isAddingItem = FALSE
    /\ ops = {}
    /\ pending = {}
    /\ nextId = 1
    /\ gestures = 0

---------------------------------------------------------------------------
(* calculateDailyTotals on the numbers of the build.  A JavaScript number is *)
(* an IEEE-754 binary64: here a non-negative one is digits * 2^exp, digits   *)
(* being the binary digits of an odd natural number, least significant       *)
(* first (no digits for 0), and a sum is rounded to 53 significant digits,   *)
(* ties to even.  The page model above keeps the same values in tenths.      *)

Significand == 53   \* significant binary digits of a number

RECURSIVE Bits(_)
Bits(n) == IF n = 0 THEN << >> ELSE <<n % 2>> \o Bits(n \div 2)

Zeros(k) == [i \in 1..k |-> 0]

RECURSIVE Canon(_, _)
Canon(digits, exp) ==
    IF digits = << >> THEN [digits |-> << >>, exp |-> 0]
    ELSE IF Head(digits) = 0 THEN Canon(Tail(digits), exp + 1)
    ELSE [digits |-> digits, exp |-> exp]

\* the number n * 2^exp of a small natural n, and the number whose 53 digits
\* are those of hi * 2^28 + lo
Num(n, exp) == Canon(Bits(n), exp)
Double(hi, lo, exp) ==
    Canon(Bits(lo) \o Zeros(28 - Len(Bits(lo))) \o Bits(hi), exp)

RECURSIVE AddBits(_, _, _)
AddBits(a, b, carry) ==
    IF a = << >> /\ b = << >> THEN (IF carry = 1 THEN <<1>> ELSE << >>)
    ELSE LET x == IF a = << >> THEN 0 ELSE Head(a)
             y == IF b = << >> THEN 0 ELSE Head(b)
         IN  <<(x + y + carry) % 2>>
                 \o AddBits(IF a = << >> THEN a ELSE Tail(a),
                            IF b = << >> THEN b ELSE Tail(b),
                            (x + y + carry) \div 2)

\* the number nearest to digits * 2^exp (plus less than 2^exp if inexact),
\* ties to even; the highest digit is 1
RoundNearestEven(digits, exp, inexact) ==
    LET k == Len(digits) - Significand
    IN  IF k <= 0 THEN Canon(digits, exp)
        ELSE LET kept == SubSeq(digits, k + 1, Len(digits))
                 up == /\ digits[k] = 1
                       /\ \/ inexact
                          \/ \E i \in 1..(k - 1) : digits[i] = 1
                          \/ kept[1] = 1
             IN  Canon(IF up THEN AddBits(kept, <<1>>, 0) ELSE kept, exp + k)

\* a + b of two numbers: the exact sum, rounded
FloatAdd(a, b) ==
    IF a.digits = << >> THEN b
    ELSE IF b.digits = << >> THEN a
    ELSE LET e0 == IF a.exp < b.exp THEN a.exp ELSE b.exp
         IN  RoundNearestEven(AddBits(Zeros(a.exp - e0) \o a.digits,
                                      Zeros(b.exp - e0) \o b.digits, 0), e0, FALSE)

Zero == Num(0, 0)

\* item.calories || 0: a missing (undefined or null) field counts as 0
MissingAsOne(item, f) == IF f \in DOMAIN item THEN item[f] ELSE Num(1, 0)

OrZero(item, f) == IF f \in DOMAIN item THEN item[f] ELSE Zero

NutrientFields == {"calories", "carbs", "fat", "fiber", "protein", "water"}

\* meal.meal_items.forEach(item => { totals.calories += item.calories || 0; ... })
RECURSIVE AddItems(_, _)
AddItems(acc, items) ==
    IF items = << >> THEN acc
    ELSE AddItems([f \in NutrientFields |-> FloatAdd(acc[f], OrZero(Head(items), f))],
                  Tail(items))

\* meals.forEach(meal => { if (meal.meal_items) { ... } })
RECURSIVE AddMeals(_, _)
AddMeals(acc, ms) ==
    IF ms = << >> THEN acc
    ELSE AddMeals(IF "meal_items" \in DOMAIN Head(ms)
                      THEN AddItems(acc, Head(ms).meal_items) ELSE acc,
                  Tail(ms))

\* calculateDailyTotals(meals: Meal[]), meals and items in array order
calculateDailyTotals_array(ms) == AddMeals([f \in NutrientFields |-> Zero], ms)

\* the remainder left after n binary digits of the fraction r / g
RECURSIVE Rem(_, _, _)
Rem(r, g, n) == IF n = 0 THEN r ELSE (2 * Rem(r, g, n - 1)) % g

RECURSIVE Trim(_)
Trim(digits) ==
    IF digits # << >> /\ digits[Len(digits)] = 0
        THEN Trim(SubSeq(digits, 1, Len(digits) - 1)) ELSE digits

QuotientDigits == 70   \* binary digits of a quotient computed before rounding

\* a / g of two whole numbers a >= 0, g > 0: the exact quotient, rounded
FloatDiv(a, g) ==
    LET fraction == [i \in 1..QuotientDigits |->
                        (2 * Rem(a % g, g, QuotientDigits - i)) \div g]
    IN  IF a = 0 THEN Num(0, 0)
        ELSE RoundNearestEven(Trim(fraction \o Bits(a \div g)), -QuotientDigits,
                              Rem(a % g, g, QuotientDigits) # 0)

\* x * n of a number and a small whole number n: the exact product, rounded
RECURSIVE TimesBits(_, _)
TimesBits(digits, n) ==
    IF n = 0 THEN << >>
    ELSE AddBits(IF n % 2 = 1 THEN digits ELSE << >>,
                 <<0>> \o TimesBits(digits, n \div 2), 0)

FloatMul(x, n) ==
    IF x.digits = << >> THEN x
    ELSE RoundNearestEven(Trim(TimesBits(x.digits, n)), x.exp, FALSE)

RECURSIVE ToNat(_)
ToNat(digits) == IF digits = << >> THEN 0 ELSE Head(digits) + 2 * ToNat(Tail(digits))

\* Math.round(x) for x >= 0: floor(x + 0.5)
MathRound(x) ==
    IF x.exp >= 0 THEN ToNat(Zeros(x.exp) \o x.digits)
    ELSE IF Len(x.digits) < -x.exp THEN 0
    ELSE ToNat(SubSeq(x.digits, 1 - x.exp, Len(x.digits))) + x.digits[-x.exp]

\* calculateGoalPercentage(actual, goal), whole numbers
calculateGoalPercentage(actual, goal) ==
    IF goal = 0 THEN 0 ELSE MathRound(FloatMul(FloatDiv(actual, goal), 100))

\* bands that leave out their ends
getGoalStatus_exclusive(actual, goal) ==
    LET percentage == calculateGoalPercentage(actual, goal)
    IN  IF percentage > 95 /\ percentage < 105 THEN "success"
        ELSE IF percentage > 85 /\ percentage < 115 THEN "warning"
        ELSE "default"

\* getGoalStatus(actual, goal)
getGoalStatus(actual, goal) ==
    LET percentage == calculateGoalPercentage(actual, goal)
    IN  IF percentage >= 95 /\ percentage <= 105 THEN "success"
        ELSE IF percentage >= 85 /\ percentage <= 115 THEN "warning"
        ELSE "default"

NotReturned == [returned |-> FALSE, value |-> [f \in NutrientFields |-> Zero]]

\* no call of calculateDailyTotals, for the specifications that do not make one
TotalsIdle == mealsArg = << >> /\ dailyTotals = NotReturned

NoStatus == [returned |-> FALSE, percentage |-> 0, status |-> ""]

\* no call of getGoalStatus
GoalIdle == goalArgs = [actual |-> 0, goal |-> 0] /\ goalStatus = NoStatus

UtilIdle == TotalsIdle /\ GoalIdle

---------------------------------------------------------------------------
(* The recipe editor (EditRecipePage): the ingredients of one recipe, their  *)
(* removal and the save that rewrites the recipe's items.                    *)

MaxEdits == 3   \* user gestures in one behaviour of the editor

NoRemoval == [active |-> FALSE, index |-> 0, cap |-> << >>]
NotSubmitted == [pc |-> "idle", cap |-> << >>]

\* ingredients.filter((_, i) => i !== index)
WithoutIndex(list, index) ==
    [i \in 1..(Len(list) - 1) |-> IF i < index THEN list[i] ELSE list[i + 1]]

RecipeStep == UNCHANGED <<pageVars, resolveVars, formVars, utilVars, selectorVars>>

\* a gesture on the editor; router.push has not left the page
Edit == submit.pc # "done" /\ edits < MaxEdits /\ edits' = edits + 1

\* handleAddIngredient(ingredient): the form hands over an ingredient without id
handleAddIngredient(name) ==
    /\ Edit
    /\ \A i \in 1..Len(ingredients) : ingredients[i].food_name # name
    /\ ingredients' = Append(ingredients, [id |-> 0, food_name |-> name, order |-> 0])
    /\ UNCHANGED <<db_recipe_items, removal, submit, nextItemId>>
    /\ RecipeStep

\* handleRemoveIngredient(index): a stored ingredient is deleted from the store
\* first, one that was only added is dropped from the list at once
handleRemoveIngredient(index) ==
    /\ Edit
    /\ ~removal.active
    /\ index \in 1..Len(ingredients)
    /\ IF ingredients[index].id # 0
       THEN /\ removal' = [active |-> TRUE, index |-> index, cap |-> ingredients]
            /\ UNCHANGED ingredients
       ELSE /\ ingredients' = WithoutIndex(ingredients, index)
            /\ UNCHANGED removal
    /\ UNCHANGED <<db_recipe_items, submit, nextItemId>>
    /\ RecipeStep

\* the store serves the delete of the row; on error the list is left as it is
RemoveServed(ok) ==
    /\ removal.active
    /\ removal' = NoRemoval
    /\ IF ok
       THEN /\ db_recipe_items' =
                 { row \in db_recipe_items : row.id # removal.cap[removal.index].id }
            /\ ingredients' = WithoutIndex(removal.cap, removal.index)
       ELSE UNCHANGED <<db_recipe_items, ingredients>>
    /\ UNCHANGED <<submit, nextItemId, edits>>
    /\ RecipeStep

\* onSubmit of the editor: the submit button is disabled while saving and
\* without ingredients
EditRecipe_onSubmit ==
    /\ Edit
    /\ submit.pc = "idle"
    /\ Len(ingredients) # 0
    /\ submit' = [pc |-> "update", cap |-> ingredients]
    /\ UNCHANGED <<db_recipe_items, ingredients, removal, nextItemId>>
    /\ RecipeStep

\* update recipes set name, servings, totals
UpdateRecipeServed(ok) ==
    /\ submit.pc = "update"
    /\ submit' = IF ok THEN [submit EXCEPT !.pc = "delete"] ELSE NotSubmitted
    /\ UNCHANGED <<db_recipe_items, ingredients, removal, nextItemId, edits>>
    /\ RecipeStep

\* delete from recipe_items where recipe_id = recipeId
DeleteRecipeItemsServed(ok) ==
    /\ submit.pc = "delete"
    /\ submit' = IF ok THEN [submit EXCEPT !.pc = "insert"] ELSE NotSubmitted
    /\ db_recipe_items' = IF ok THEN {} ELSE db_recipe_items
    /\ UNCHANGED <<ingredients, removal, nextItemId, edits>>
    /\ RecipeStep

\* insert into recipe_items the ingredients with order: index + 1, then router.push
InsertRecipeItemsServed(ok) ==
    /\ submit.pc = "insert"
    /\ submit' = IF ok THEN [submit EXCEPT !.pc = "done"] ELSE NotSubmitted
    /\ IF ok
       THEN /\ db_recipe_items' = db_recipe_items \cup
                 { [id |-> nextItemId + i - 1, food_name |-> submit.cap[i].food_name,
                    order |-> i] : i \in 1..Len(submit.cap) }
            /\ nextItemId' = nextItemId + Len(submit.cap)
       ELSE UNCHANGED <<db_recipe_items, nextItemId>>
    /\ UNCHANGED <<ingredients, removal, edits>>
    /\ RecipeStep

\* no recipe is being edited
RecipeIdle ==
    /\ db_recipe_items = {}
    /\ ingredients = << >>
    /\ removal = NoRemoval
    /\ submit = NotSubmitted
    /\ nextItemId = 1
    /\ edits = 0

---------------------------------------------------------------------------
(* The recipe selector (RecipeSelector) of one meal, open in two tabs.  The  *)
(* recipes table and the meal_items table keep carbs, fat, fiber and protein *)
(* as DECIMAL(10, 2): these values are in hundredths, calories are integers. *)

MaxAdds == 2   \* recipes one tab adds in one behaviour

Tabs == {1, 2}

\* the user's recipes (fetchRecipes)
Recipes ==
    { [id |-> 1, servings |-> 8, total_calories |-> 840, total_carbs |-> 0,
       total_fat |-> 8800, total_fiber |-> 0, total_protein |-> 1200],
      [id |-> 2, servings |-> 3, total_calories |-> 1000, total_carbs |-> 2500,
       total_fat |-> 700, total_fiber |-> 100, total_protein |-> 1000] }

\* Math.round(recipe.total_calories / recipe.servings)
caloriesPerServing(recipe) ==
    (2 * recipe.total_calories + recipe.servings) \div (2 * recipe.servings)

\* what a DECIMAL(10, 2) column keeps of the number num / den it is sent
\* (num in hundredths): the nearest hundredth
Decimal2(num, den) == (2 * num + den) \div (2 * den)

\* the row handleAddRecipe inserts (servings is 1), as the store keeps it
RecipeRow(recipe, id, nextOrder) ==
    [id |-> id, recipe_id |-> recipe.id, order |-> nextOrder,
     calories |-> caloriesPerServing(recipe) * 1,
     protein  |-> Decimal2(recipe.total_protein * 1, recipe.servings),
     carbs    |-> Decimal2(recipe.total_carbs * 1, recipe.servings),
     fat      |-> Decimal2(recipe.total_fat * 1, recipe.servings),
     fiber    |-> Decimal2(recipe.total_fiber * 1, recipe.servings),
     water    |-> 0]

\* existingItems[0].order + 1 of the select ordered by "order" descending, or 1
NextOrder ==
    IF db_items = {} THEN 1
    ELSE (CHOOSE row \in db_items : \A other \in db_items : other.order <= row.order).order + 1

SelectorStep == UNCHANGED <<pageVars, resolveVars, formVars, utilVars, recipeVars>>

\* handleAddRecipe(recipe) in tab t, up to its first await
handleAddRecipe(t, recipe) ==
    /\ tabs[t].pc = "idle"                       \* the buttons are disabled while saving
    /\ tabs[t].adds < MaxAdds
    /\ tabs' = [tabs EXCEPT ![t] = [pc |-> "order", recipe |-> recipe.id, nextOrder |-> 0,
                                    adds |-> tabs[t].adds + 1, saved |-> tabs[t].saved]]
    /\ UNCHANGED <<db_items, nextTabRow>>
    /\ SelectorStep

\* the select of the largest order is served to tab t
AddRecipeOrderServed(t, ok) ==
    /\ tabs[t].pc = "order"
    /\ tabs' = IF ok THEN [tabs EXCEPT ![t].pc = "insert", ![t].nextOrder = NextOrder]
               ELSE [tabs EXCEPT ![t].pc = "idle"]
    /\ UNCHANGED <<db_items, nextTabRow>>
    /\ SelectorStep

\* the insert into meal_items is served to tab t; then onSave()
AddRecipeInsertServed(t, ok) ==
    /\ tabs[t].pc = "insert"
    /\ IF ok
       THEN /\ db_items' = db_items \cup
                 { RecipeRow(CHOOSE recipe \in Recipes : recipe.id = tabs[t].recipe,
                             nextTabRow, tabs[t].nextOrder) }
            /\ nextTabRow' = nextTabRow + 1
            /\ tabs' = [tabs EXCEPT ![t].pc = "idle", ![t].saved = tabs[t].saved + 1]
       ELSE /\ tabs' = [tabs EXCEPT ![t].pc = "idle"]
            /\ UNCHANGED <<db_items, nextTabRow>>
    /\ SelectorStep

IdleTab == [pc |-> "idle", recipe |-> 0, nextOrder |-> 0, adds |-> 0, saved |-> 0]

\* the selector at rest, for the specifications that do not run it
SelectorIdle ==
    /\ db_items = {}
    /\ tabs = [t \in Tabs |-> IdleTab]
    /\ nextTabRow = 1

---------------------------------------------------------------------------
(* Item forms: the food search result, its conversion to a per-cup base and  *)
(* the scaling by serving and unit.  A search result carries its values per  *)
(* 100 g in hundredths; a base and the displayed values carry calories as    *)
(* integers and the other nutrients in tenths.  Products and quotients are   *)
(* exact (the code's floating point is not modelled).                        *)

MaxQuarters == 8   \* largest serving explored, in quarters

\* Math.round(n / d) for n >= 0, d > 0
Round(n, d) == (2 * n + d) \div (2 * d)

NoBase == [ZeroTotals EXCEPT !.calories = -1]

servingUnits(kind) ==
    IF kind = "meal" THEN {"cup", "tbsp", "tsp"}
    ELSE {"cup", "tbsp", "tsp", "each", "package"}

\* a table with 15 tablespoons and 45 teaspoons to the cup
unitToCups_metric(u) == CASE u = "cup" -> 1 [] u = "tbsp" -> 15 [] u = "tsp" -> 45

\* unitToCups as the denominator of the fraction of a cup
unitToCups(u) == CASE u = "cup" -> 1 [] u = "tbsp" -> 16 [] u = "tsp" -> 48

\* the values scaleNutrition(base, cups) sets, cups = num / den
scaleNutrition(base, num, den) ==
    [calories |-> Round(base.calories * num, den),
     carbs    |-> Round(base.carbs * num, den),
     fat      |-> Round(base.fat * num, den),
     fiber    |-> Round(base.fiber * num, den),
     protein  |-> Round(base.protein * num, den),
     water    |-> Round(base.water * num, den)]

\* RecipeItemForm.rescaleFromUnit: if (unit === 'each' || unit === 'package') return
RescaleSkipped(kind, u) == kind = "recipe" /\ u \in {"each", "package"}

\* rescaleFromUnit(servingVal, unit): the displayed values it leaves
rescaleFromUnit(servingVal, u) ==
    IF baseNutrition = NoBase THEN nutrition
    ELSE IF RescaleSkipped(formKind, u) THEN nutrition
    ELSE scaleNutrition(baseNutrition, servingVal, 4 * unitToCups(u))

\* the measure units of the portions explored, and the tests findCupGrams makes on them
MeasureUnits ==
    {"cup", "cup, chopped", "cup, sliced", "1 cup, undrained", "cup, undrained", "tbsp"}
IsExactCup(u) == u \in {"cup", "cup, chopped", "cup, sliced"}
StartsWith1Cup(u) == u \in {"1 cup, undrained"}
IncludesCup(u) == u \in MeasureUnits \ {"tbsp"}
IncludesUndrained(u) == u \in {"1 cup, undrained", "cup, undrained"}

CupMatch(p) ==
    \/ IsExactCup(p.measureUnit)
    \/ StartsWith1Cup(p.measureUnit)
    \/ (IncludesCup(p.measureUnit) /\ ~IncludesUndrained(p.measureUnit))

NoPortion == [measureUnit |-> "", gramWeight |-> 0, amount |-> 1]

\* findCupGrams: the first matching portion (cup grams = gramWeight / amount), else null
findCupGrams(portions) ==
    LET hits == { i \in 1..Len(portions) : CupMatch(portions[i]) }
    IN  IF hits = {} THEN NoPortion
        ELSE portions[CHOOSE i \in hits : \A j \in hits : i <= j]

\* if (cupGrams): a portion was found and its quotient is not 0
HasCupGrams(p) == p # NoPortion /\ p.gramWeight # 0

\* per 100 g, hundredths -> per cup: calories rounded to integers, the others to tenths
PerCup(food, p) ==
    [calories |-> Round(food.calories * p.gramWeight, 10000 * p.amount),
     carbs    |-> Round(food.carbs * p.gramWeight, 1000 * p.amount),
     fat      |-> Round(food.fat * p.gramWeight, 1000 * p.amount),
     fiber    |-> Round(food.fiber * p.gramWeight, 1000 * p.amount),
     protein  |-> Round(food.protein * p.gramWeight, 1000 * p.amount),
     water    |-> Round(food.water * p.gramWeight, 1000 * p.amount)]

\* per 100 g as-is: calories rounded to integers, the others to tenths
Per100g(food) ==
    [calories |-> Round(food.calories, 100),
     carbs    |-> Round(food.carbs, 10),
     fat      |-> Round(food.fat, 10),
     fiber    |-> Round(food.fiber, 10),
     protein  |-> Round(food.protein, 10),
     water    |-> Round(food.water, 10)]

\* the search results explored (per 100 g, hundredths), what their portions
\* may be and what the fetch of the food detail may give
UsdaFoods ==
    { [calories |-> 5250, carbs |-> 1380, fat |-> 17, fiber |-> 240, protein |-> 26,
       water |-> 8556],
      [calories |-> 88400, carbs |-> 0, fat |-> 10000, fiber |-> 0, protein |-> 0,
       water |-> 0] }

PortionLists ==
    { << >>,
      << [measureUnit |-> "tbsp", gramWeight |-> 14, amount |-> 1],
         [measureUnit |-> "cup", gramWeight |-> 216, amount |-> 1] >>,
      << [measureUnit |-> "cup, undrained", gramWeight |-> 250, amount |-> 1] >>,
      << [measureUnit |-> "cup, sliced", gramWeight |-> 150, amount |-> 1],
         [measureUnit |-> "cup, undrained", gramWeight |-> 200, amount |-> 1] >>,
      << [measureUnit |-> "1 cup, undrained", gramWeight |-> 480, amount |-> 2] >> }

DetailResults ==
    { [result |-> "throws", portions |-> << >>],
      [result |-> "notOk", portions |-> << >>],
      [result |-> "ok", portions |-> << >>],
      [result |-> "ok",
       portions |-> << [measureUnit |-> "cup, chopped", gramWeight |-> 125, amount |-> 1] >>] }

\* rows of the personal library (per serving: calories, the others in tenths)
MyFoods ==
    { [calories |-> 60, carbs |-> 5, fat |-> 40, fiber |-> 0, protein |-> 60, water |-> 0],
      [calories |-> 840, carbs |-> 0, fat |-> 880, fiber |-> 0, protein |-> 120,
       water |-> 0] }

NoSelected ==
    [source |-> "none", food |-> ZeroTotals, portions |-> << >>, cup |-> NoPortion,
     defaultAmount |-> ""]

FormStep ==
    UNCHANGED <<pageVars, resolveVars, utilVars, recipeVars, selectorVars, formKind>>

\* the form's handleFoodSelect(food): the new base, serving 1, the values of 1 cup
handleFoodSelect(base, defaultAmount) ==
    /\ baseNutrition' = base
    /\ servingInfo' = IF formKind = "recipe" THEN defaultAmount ELSE servingInfo
    /\ serving' = 4
    /\ nutrition' = scaleNutrition(base, 1, 1)
    /\ UNCHANGED unit

\* the portions handleSelectFood resolves the cup from
PortionsUsed(portions, detail) ==
    IF Len(portions) # 0 THEN portions
    ELSE IF detail.result = "ok" THEN detail.portions ELSE << >>

\* the servingText of a food without cup grams
NoCupText == "per 100g (no cup data)"

\* FoodSearchModal.handleSelectFood(food), through onSelect
handleSelectFood(food, portions, detail) ==
    LET threw == Len(portions) = 0 /\ detail.result = "throws"
        used == IF threw THEN << >> ELSE PortionsUsed(portions, detail)
        cup == IF threw THEN NoPortion ELSE findCupGrams(used)
        servingText == IF threw THEN "per 100g"
                       ELSE IF HasCupGrams(cup) THEN "per 1 cup" ELSE NoCupText
        values == IF HasCupGrams(cup) THEN PerCup(food, cup) ELSE Per100g(food)
    IN  /\ handleFoodSelect(values, servingText)
        /\ selected' = [source |-> "usda", food |-> food, portions |-> used,
                        cup |-> cup, defaultAmount |-> servingText]
        /\ FormStep

\* RecipeItemForm.handleMyFoodSelect(food)
handleMyFoodSelect(food) ==
    /\ formKind = "recipe"
    /\ baseNutrition' = food
    /\ serving' = 4
    /\ nutrition' = scaleNutrition(food, 1, 1)
    /\ selected' = NoSelected
    /\ UNCHANGED <<unit, servingInfo>>
    /\ FormStep

\* handleServingChange, after register('serving').onChange
handleServingChange(val) ==
    /\ val # serving
    /\ serving' = val
    /\ nutrition' = IF val > 0 THEN rescaleFromUnit(val, unit) ELSE nutrition
    /\ UNCHANGED <<baseNutrition, unit, servingInfo, selected>>
    /\ FormStep

\* handleUnitChange, after register('unit').onChange
handleUnitChange(newUnit) ==
    /\ newUnit # unit
    /\ unit' = newUnit
    /\ nutrition' = IF serving > 0 THEN rescaleFromUnit(serving, newUnit) ELSE nutrition
    /\ UNCHANGED <<baseNutrition, serving, servingInfo, selected>>
    /\ FormStep

\* a freshly mounted form (useForm defaultValues)
FormMounted ==
    /\ baseNutrition = NoBase
    /\ serving = 4
    /\ unit = "cup"
    /\ nutrition = ZeroTotals
    /\ servingInfo = ""
    /\ selected = NoSelected

\* the form at rest, for the specifications that do not run it
FormIdle == formKind = "meal" /\ FormMounted

InitForm ==
    /\ formKind \in {"meal", "recipe"}
    /\ FormMounted
    /\ PageIdle
    /\ ResolveIdle
    /\ UtilIdle
    /\ RecipeIdle
    /\ SelectorIdle

NextForm ==
    \/ \E food \in UsdaFoods, portions \in PortionLists, detail \in DetailResults :
          handleSelectFood(food, portions, detail)
    \/ \E food \in MyFoods : handleMyFoodSelect(food)
    \/ \E val \in 1..MaxQuarters : handleServingChange(val)
    \/ \E newUnit \in servingUnits(formKind) : handleUnitChange(newUnit)

SpecForm == InitForm /\ [][NextForm]_vars

\* the single direct conversion of a reference profile at a serving:
\* cup, tbsp, tsp by their fraction of a cup, each and package by the quantity
DirectConversion(base, quantity, u) ==
    IF u \in {"each", "package"} THEN scaleNutrition(base, quantity, 4)
    ELSE scaleNutrition(base, quantity, 4 * unitToCups(u))

\* C8: once a food has been selected, whatever unit and quantity changes were
\* made, the displayed values are the direct conversion of the reference
\* profile at the current quantity and unit.
C8_DisplayIsDirectConversion ==
    baseNutrition # NoBase => nutrition = DirectConversion(baseNutrition, serving, unit)

\* C9: with unit each or package the displayed values are the reference
\* profile scaled by the quantity, each nutrient rounded.
C9_EachPackageScaleByQuantity ==
    (baseNutrition # NoBase /\ unit \in {"each", "package"})
        => nutrition = scaleNutrition(baseNutrition, serving, 4)

\* C10: for a search result without resolvable cup grams the description is
\* exactly "per 100g" and the displayed values are the per-100g profile,
\* whatever the quantity and the unit.
C10_DegradedModeUnscaled ==
    (selected.source = "usda" /\ ~HasCupGrams(selected.cup))
        => /\ selected.defaultAmount = "per 100g"
           /\ nutrition = Per100g(selected.food)

\* the labels that are exactly "cup" or "cup, <preparation>"
CupOrCupPreparation(u) == u \in {"cup", "cup, chopped", "cup, sliced", "cup, undrained"}

\* a portion the claimed resolver may select
Qualifies(p) == CupOrCupPreparation(p.measureUnit) /\ ~IncludesUndrained(p.measureUnit)

\* C11: the cup portion resolved for a search result has a label that is
\* exactly "cup" or "cup, <preparation>" and does not contain "undrained";
\* the portions [cup, sliced 150 g; cup, undrained 200 g] give 150 g; no
\* portion is resolved when none qualifies.
C11_CupGramsOnlyCupNeverUndrained ==
    selected.source = "usda" =>
        /\ selected.cup # NoPortion => Qualifies(selected.cup)
        /\ findCupGrams(<< [measureUnit |-> "cup, sliced", gramWeight |-> 150, amount |-> 1],
                            [measureUnit |-> "cup, undrained", gramWeight |-> 200,
                             amount |-> 1] >>).gramWeight = 150
        /\ (\A i \in 1..Len(selected.portions) : ~Qualifies(selected.portions[i]))
              => selected.cup = NoPortion

\* volumeRatio[unit] as the denominator of the ratio: cup 1, tbsp 1/16, tsp 1/48
volumeRatio(u) == CASE u = "cup" -> 1 [] u = "tbsp" -> 16 [] u = "tsp" -> 48

\* a step of handleServingChange or handleUnitChange on a form with a base
RescaleStep ==
    /\ baseNutrition # NoBase
    /\ \/ \E val \in 1..MaxQuarters : handleServingChange(val)
       \/ \E newUnit \in servingUnits(formKind) : handleUnitChange(newUnit)

OneRounding(food, p, quantity, u) ==
    [f \in DOMAIN ZeroTotals |->
        Round(food[f] * p.gramWeight * quantity,
              (IF f = "calories" THEN 10000 ELSE 1000) * p.amount * 4 * volumeRatio(u))]

\* C22: for a search result with resolved cup grams, at every quantity and
\* unit cup, tbsp or tsp, each displayed nutrient is one rounding of
\* per100g * g / 100 * quantity * volumeRatio[unit].
C22_OneRoundingFromPer100g ==
    (selected.source = "usda" /\ HasCupGrams(selected.cup)
        /\ unit \in {"cup", "tbsp", "tsp"})
        => nutrition = OneRounding(selected.food, selected.cup, serving, unit)

---------------------------------------------------------------------------
(* calculateDailyTotals: the specification of one call *)

MaxMeals == 2   \* meals in the argument of the call

\* the items explored: a field an item does not carry is undefined or null
ItemA == [calories |-> Num(105, 0), carbs |-> Zero, fat |-> Num(11, 0), fiber |-> Zero,
          protein |-> Num(3, -1), water |-> Zero]
ItemB == [calories |-> Num(240, 0), protein |-> Zero]

\* the meals explored: with meal_items (possibly none) or without the field.
\* Three items carry protein 0.1, 0.2 and 0.3, that is the numbers nearest to
\* them: 0x1.999999999999ap-4, 0x1.999999999999ap-3 and 0x1.3333333333333p-2.
MealChoices ==
    LET ItemC == [calories |-> Num(1, 0), protein |-> Double(26843545, 161061274, -56)]
        ItemD == [calories |-> Num(2, 0), protein |-> Double(26843545, 161061274, -55),
                  water |-> Num(1, 0)]
        ItemE == [calories |-> Num(3, 0), protein |-> Double(20132659, 53687091, -54)]
    IN  { [meal_type |-> "breakfast"] }
        \cup { [meal_type |-> "lunch", meal_items |-> items] :
                 items \in { << >>, <<ItemA>>, <<ItemB>>, <<ItemA, ItemB>>,
                             <<ItemC, ItemD>>, <<ItemE>>, <<ItemC, ItemD, ItemE>> } }

InitTotals ==
    /\ mealsArg \in UNION { [1..n -> MealChoices] : n \in 0..MaxMeals }
    /\ dailyTotals = NotReturned
    /\ GoalIdle
    /\ RecipeIdle
    /\ SelectorIdle
    /\ PageIdle
    /\ ResolveIdle
    /\ FormIdle

CallDailyTotals ==
    /\ ~dailyTotals.returned
    /\ dailyTotals' = [returned |-> TRUE, value |-> calculateDailyTotals_array(mealsArg)]
    /\ UNCHANGED <<mealsArg, goalArgs, goalStatus, pageVars, resolveVars, formVars,
                   recipeVars, selectorVars>>

NextTotals == CallDailyTotals

SpecTotals == InitTotals /\ [][NextTotals]_vars

\* the rearrangements of a sequence
Orderings(seq) ==
    { [i \in 1..Len(seq) |-> seq[f[i]]] :
        f \in { g \in [1..Len(seq) -> 1..Len(seq)] :
                  \A i, j \in 1..Len(seq) : g[i] = g[j] => i = j } }

\* a meal with its items in any order
ItemOrders(meal) ==
    IF "meal_items" \in DOMAIN meal
        THEN { [meal EXCEPT !.meal_items = q] : q \in Orderings(meal.meal_items) }
        ELSE { meal }

\* the meals in any order, each with its items in any order
Rearrangements(ms) ==
    UNION { { r \in [1..Len(p) -> UNION { ItemOrders(p[i]) : i \in 1..Len(p) }] :
                \A i \in 1..Len(p) : r[i] \in ItemOrders(p[i]) } :
            p \in Orderings(ms) }

\* C13: calculateDailyTotals gives the same totals, in every field, for the
\* meals in any order with the items of each meal in any order.
C13_AggregationOrderIndependent ==
    dailyTotals.returned =>
        \A r \in Rearrangements(mealsArg) :
            calculateDailyTotals_array(r) = dailyTotals.value

\* the items of the meals, in order
RECURSIVE LineItems(_)
LineItems(ms) ==
    IF ms = << >> THEN << >>
    ELSE (IF "meal_items" \in DOMAIN Head(ms) THEN Head(ms).meal_items ELSE << >>)
             \o LineItems(Tail(ms))

\* the sum of one field over the items, a missing field being 0
RECURSIVE FieldSum(_, _, _)
FieldSum(items, f, n) ==
    IF n = 0 THEN Zero
    ELSE FloatAdd(FieldSum(items, f, n - 1),
                  IF f \in DOMAIN items[n] THEN items[n][f] ELSE Zero)

\* C14: each field of the totals is the sum of that field over the line
\* items, a missing field counting as zero and nothing being rounded
\* besides the additions themselves; without items every field is zero.
C14_FieldwiseSumMissingAsZero ==
    dailyTotals.returned =>
        /\ DOMAIN dailyTotals.value = NutrientFields
        /\ \A f \in NutrientFields :
              dailyTotals.value[f] =
                  FieldSum(LineItems(mealsArg), f, Len(LineItems(mealsArg)))
        /\ LineItems(mealsArg) = << >> =>
              \A f \in NutrientFields : dailyTotals.value[f] = Zero

\* C14 witness: items with calories 105 and 240 and protein 1.5 and 0 (the
\* second without carbs, fat, fiber and water) total calories 345, protein 1.5
C14_Witness ==
    /\ dailyTotals.returned
    /\ LineItems(mealsArg) = <<ItemA, ItemB>>
    /\ dailyTotals.value.calories = Num(345, 0)
    /\ dailyTotals.value.protein = Num(3, -1)
    /\ dailyTotals.value.carbs = Zero

---------------------------------------------------------------------------
(* getGoalStatus: the specification of one call *)

MaxActual == 240   \* largest actual explored

\* the goals explored: none, and goals of getDefaultDailyGoals scaled down
GoalInputs == {0, 200, 80}

InitGoal ==
    /\ goalArgs \in [actual : 0..MaxActual, goal : GoalInputs]
    /\ goalStatus = NoStatus
    /\ TotalsIdle
    /\ RecipeIdle
    /\ SelectorIdle
    /\ PageIdle
    /\ ResolveIdle
    /\ FormIdle

CallGetGoalStatus ==
    /\ ~goalStatus.returned
    /\ goalStatus' =
          [returned |-> TRUE,
           percentage |-> calculateGoalPercentage(goalArgs.actual, goalArgs.goal),
           status |-> getGoalStatus(goalArgs.actual, goalArgs.goal)]
    /\ UNCHANGED <<goalArgs, mealsArg, dailyTotals, pageVars, resolveVars, formVars,
                   recipeVars, selectorVars>>

NextGoal == CallGetGoalStatus

SpecGoal == InitGoal /\ [][NextGoal]_vars

\* the classification of the claim in the words of the code's return values
OnTarget == "success"
NearTarget == "warning"
OffTarget == "default"

\* C15: the percentage is 0 for goal 0 and round(actual / goal * 100)
\* otherwise (in the program's arithmetic); the status is on-target iff
\* 95 <= percentage <= 105, near-target iff 85 <= percentage < 95 or
\* 105 < percentage <= 115, off-target otherwise; 190 of 200 is on-target.
C15_GoalStatusBands ==
    goalStatus.returned =>
        LET p == goalStatus.percentage
        IN  /\ goalArgs.goal = 0 => p = 0
            /\ goalArgs.goal # 0 =>
                  p = MathRound(FloatMul(FloatDiv(goalArgs.actual, goalArgs.goal), 100))
            /\ goalStatus.status = OnTarget <=> (95 <= p /\ p <= 105)
            /\ goalStatus.status = NearTarget
                  <=> ((85 <= p /\ p < 95) \/ (105 < p /\ p <= 115))
            /\ goalStatus.status \in {OnTarget, NearTarget, OffTarget}
            /\ (goalArgs.actual = 190 /\ goalArgs.goal = 200)
                  => goalStatus.status = OnTarget

\* C15 witness: 175 of 200 gives 88, near-target
C15_Witness ==
    /\ goalArgs = [actual |-> 175, goal |-> 200]
    /\ goalStatus = [returned |-> TRUE, percentage |-> 88, status |-> NearTarget]

---------------------------------------------------------------------------
(* The recipe editor: the specification *)

\* the stored items of the recipe: three in a row, or two with the gap an
\* earlier removal has left
StoredRecipeItems ==
    { << [id |-> 1, food_name |-> "oats", order |-> 1],
         [id |-> 2, food_name |-> "milk", order |-> 2],
         [id |-> 3, food_name |-> "honey", order |-> 3] >>,
      << [id |-> 1, food_name |-> "oats", order |-> 1],
         [id |-> 3, food_name |-> "honey", order |-> 3] >> }

\* fetchRecipe has loaded the items, ordered by order
InitRecipe ==
    /\ \E rows \in StoredRecipeItems :
          /\ db_recipe_items = { rows[i] : i \in 1..Len(rows) }
          /\ ingredients = rows
    /\ removal = NoRemoval
    /\ submit = NotSubmitted
    /\ nextItemId = 4
    /\ edits = 0
    /\ PageIdle
    /\ ResolveIdle
    /\ FormIdle
    /\ UtilIdle
    /\ SelectorIdle

NextRecipe ==
    \/ \E name \in {"salt", "milk"} : handleAddIngredient(name)
    \/ \E index \in 1..Len(ingredients) : handleRemoveIngredient(index)
    \/ \E ok \in BOOLEAN : RemoveServed(ok)
    \/ EditRecipe_onSubmit
    \/ \E ok \in BOOLEAN : UpdateRecipeServed(ok)
    \/ \E ok \in BOOLEAN : DeleteRecipeItemsServed(ok)
    \/ \E ok \in BOOLEAN : InsertRecipeItemsServed(ok)

SpecRecipe == InitRecipe /\ [][NextRecipe]_vars

\* the stored row of an ingredient
StoredRow(name) == { row \in db_recipe_items : row.food_name = name }

\* the largest order among rows, 0 without rows
MaxOrderOf(rows) ==
    IF rows = {} THEN 0
    ELSE (CHOOSE row \in rows : \A other \in rows : other.order <= row.order).order

\* C17: an item is created with order = max(order of the items of its
\* parent) + 1 (1 in an empty parent), and the order of an item that exists
\* is never changed afterwards, whatever is removed: once the editor has
\* saved, every ingredient that was stored before is stored with the order
\* it had, and every added one with an order above those before it.
C17_OrderAssignedOnceGapsPersist ==
    submit.pc = "done" =>
        \A i \in 1..Len(submit.cap) :
            LET item == submit.cap[i]
                before == UNION { StoredRow(submit.cap[j].food_name) : j \in 1..(i - 1) }
            IN  \A row \in StoredRow(item.food_name) :
                    IF item.order # 0 THEN row.order = item.order
                    ELSE row.order = MaxOrderOf(before) + 1

---------------------------------------------------------------------------
(* The recipe selector: the specification.  Two tabs show the same meal,    *)
(* which holds no item or one item left at order 2 by an earlier delete.    *)

StoredMealItems ==
    { {},
      {[id |-> 1, recipe_id |-> 0, order |-> 2, calories |-> 30, protein |-> 50,
        carbs |-> 700, fat |-> 0, fiber |-> 100, water |-> 0]} }

InitSelector ==
    /\ db_items \in StoredMealItems
    /\ tabs = [t \in Tabs |-> IdleTab]
    /\ nextTabRow = 2
    /\ PageIdle
    /\ ResolveIdle
    /\ FormIdle
    /\ UtilIdle
    /\ RecipeIdle

NextSelector ==
    \/ \E t \in Tabs, recipe \in Recipes : handleAddRecipe(t, recipe)
    \/ \E t \in Tabs, ok \in BOOLEAN : AddRecipeOrderServed(t, ok)
    \/ \E t \in Tabs, ok \in BOOLEAN : AddRecipeInsertServed(t, ok)

SpecSelector == InitSelector /\ [][NextSelector]_vars

\* the recipe a stored row was added from
RecipeOf(row) == CHOOSE recipe \in Recipes : recipe.id = row.recipe_id

\* num / den rounded to one decimal place, in hundredths
OneDecimal(num, den) == 10 * ((2 * num + 10 * den) \div (2 * 10 * den))

\* C23: every meal item the recipe selector has stored carries calories
\* rounded to the nearest integer and each other nutrient as total / servings
\* rounded to one decimal place (a multiple of ten hundredths).
C23_RecipeItemRoundedToOneDecimal ==
    \A row \in db_items :
        row.recipe_id # 0 =>
            /\ row.calories = caloriesPerServing(RecipeOf(row))
            /\ row.protein = OneDecimal(RecipeOf(row).total_protein, RecipeOf(row).servings)
            /\ row.carbs = OneDecimal(RecipeOf(row).total_carbs, RecipeOf(row).servings)
            /\ row.fat = OneDecimal(RecipeOf(row).total_fat, RecipeOf(row).servings)
            /\ row.fiber = OneDecimal(RecipeOf(row).total_fiber, RecipeOf(row).servings)

\* C30: no two items of the meal share an order value, whatever additions
\* the two tabs have made.
C30_OrderUniqueWithinMeal ==
    \A row, other \in db_items : row.order = other.order => row = other

---------------------------------------------------------------------------
(* Get-or-create day resolver: the specification *)

\* two activations of fetchDayData start for a date that has no daily log
InitResolve ==
    /\ weekStartsOn \in {0, 3}
    /\ db_weeks \in StoredWeeks
    /\ db_daily_logs = {}
    /\ nextRowId = 3
    /\ pc = [r \in Resolvers |-> "readLog"]
    /\ log = [r \in Resolvers |-> 0]
    /\ week = [r \in Resolvers |-> 0]
    /\ createError = [r \in Resolvers |-> NoError]
    /\ PageIdle
    /\ FormIdle
    /\ UtilIdle
    /\ RecipeIdle
    /\ SelectorIdle

NextResolve ==
    \/ \E r \in Resolvers : ReadLog(r)
    \/ \E r \in Resolvers : ReadExactWeek(r)
    \/ \E r \in Resolvers : ReadRangeWeek(r)
    \/ \E r \in Resolvers : InsertWeek(r)
    \/ \E r \in Resolvers : RereadWeek(r)
    \/ \E r \in Resolvers : InsertLog(r)
    \/ \E r \in Resolvers : RereadLog(r)
    \/ \E r \in Resolvers : FetchMeals(r)

SpecResolve == InitResolve /\ [][NextResolve]_vars

\* both activations of fetchDayData have ended
ResolversDone == \A r \in Resolvers : pc[r] \in {"done", "error"}

\* C1: for every interleaving of two concurrent fetchDayData activations for
\* a date that has no daily log, the store never holds two logs of that date,
\* and once both have ended it holds exactly one, both activations hold its
\* id and neither has ended in the catch block.
C1_OneDailyLogForBoth ==
    /\ Cardinality(LogOfDate) <= 1
    /\ ResolversDone =>
          /\ Cardinality(LogOfDate) = 1
          /\ \A r \in Resolvers : pc[r] = "done" /\ log[r] = Single(LogOfDate)

\* both have ended after a race: one of them met the unique constraint
C1_Witness ==
    /\ ResolversDone
    /\ \E r \in Resolvers : createError[r].log = "23505"

\* C16: when two activations both find no week and both insert one, the
\* unique-constraint violation the second meets is not an error: it reads
\* the week again and goes on with the stored row, so the store holds
\* exactly one week of that start date and both activations hold its id.
C16_WeekRaceResolvedByReread ==
    /\ Cardinality(ExactWeek) <= 1
    /\ \A r \in Resolvers :
          createError[r].week = "23505" =>
              /\ pc[r] # "error"
              /\ Cardinality(ExactWeek) = 1
              /\ pc[r] # "rereadWeek" =>
                    \A r2 \in Resolvers : week[r2] = Single(ExactWeek)

\* both have ended, one of them after the weeks insert was refused
C16_Witness ==
    /\ ResolversDone
    /\ \E r \in Resolvers : createError[r].week = "23505" /\ week[r] # 0

\* the user has a week whose range contains the selected date
ContainingWeekStored ==
    \E w \in db_weeks : w.start_date <= selectedDate /\ selectedDate <= w.end_date

\* C21: findOrCreateWeek asks for the exact start date first, goes on to the
\* range query only when that found nothing, and to the insert only when the
\* range query found nothing either; and no week is added to the store in a
\* step that starts with a stored week whose range contains the date.
C21_ExactThenRangeThenCreate ==
    /\ [][\A r \in Resolvers :
            /\ (pc'[r] = "rangeWeek" /\ pc[r] # "rangeWeek")
                  => pc[r] = "exactWeek" /\ week'[r] = 0
            /\ (pc'[r] = "insertWeek" /\ pc[r] # "insertWeek")
                  => pc[r] = "rangeWeek" /\ week'[r] = 0
            /\ (pc'[r] = "insertLog" /\ pc[r] = "rangeWeek")
                  => \E w \in db_weeks : /\ w.id = week'[r]
                                         /\ w.start_date <= selectedDate
                                         /\ selectedDate <= w.end_date]_vars
    /\ [][ContainingWeekStored => db_weeks' = db_weeks]_vars

\* the week of another start day was found by the range query: the
\* activation goes on to the log with it, and the store holds no other week
C21_Witness ==
    \E r \in Resolvers :
        /\ pc[r] = "insertLog"
        /\ ExactWeek = {}
        /\ \E w \in db_weeks : w.id = week[r] /\ w.start_date # weekStartStr
        /\ Cardinality(db_weeks) = 1

\* C27: every daily log the resolver has created carries zero totals and zero
\* water and hangs on a stored week whose range contains its date; every
\* stored week, those the resolver created included, ends six days after it
\* starts.
C27_NewLogZeroedUnderContainingWeek ==
    /\ \A l \in db_daily_logs :
          /\ l.totals = ZeroTotals
          /\ \E w \in db_weeks : /\ w.id = l.week_id
                                 /\ w.start_date <= l.log_date
                                 /\ l.log_date <= w.end_date
    /\ \A w \in db_weeks : w.end_date = w.start_date + 6

\* the log has been created under a week the resolver created itself
C27_Witness ==
    \E l \in db_daily_logs, w \in db_weeks :
        /\ w.id = l.week_id
        /\ w.id >= 3
        /\ l.log_date = selectedDate
        /\ ResolversDone


---------------------------------------------------------------------------
(* Meals page: the specification.  fetchDayData has loaded the selected     *)
(* day: a day without meals, or a day holding one meal with two items,      *)
(* locked or not.                                                           *)

StoredItems ==
    { [NewItem(2, 1, FoodProfile) EXCEPT !.order = 1],
      [NewItem(3, 1, RecipeProfile) EXCEPT !.order = 2] }

StoredDays ==
    { [meals |-> {}, items |-> {}, nextId |-> 1],
      [meals |-> {[id |-> 1, meal_order |-> 1]}, items |-> StoredItems, nextId |-> 4] }

Init ==
    /\ \E day \in StoredDays :
          /\ db_meals = day.meals
          /\ db_meal_items = day.items
          /\ \E locked \in BOOLEAN :
                db_daily_log = [WithTotals(NewLog, SumItems(day.items))
                                   EXCEPT !.is_locked = locked]
          /\ nextId = day.nextId
    /\ dailyLog = db_daily_log
    /\ meals = SelectMeals
    /\ currentMeal = 0
    /\ isAddingItem = FALSE
    /\ ops = {}
    /\ pending = {}
    /\ gestures = 0
    /\ ResolveIdle
    /\ FormIdle
    /\ UtilIdle
    /\ RecipeIdle
    /\ SelectorIdle

Next ==
    \/ handleAddMeal
    \/ \E o \in ops, ok \in BOOLEAN : AddMealServed(o, ok)
    \/ \E m \in MealIds(meals) : handleAddItemToMeal(m)
    \/ onCancel
    \/ \E in \in FormInputs : onSubmit(in[1], in[2])
    \/ \E o \in ops, ok \in BOOLEAN : SubmitOrderServed(o, ok)
    \/ \E o \in ops, ok \in BOOLEAN : SubmitInsertServed(o, ok)
    \/ \E o \in ops, ok \in BOOLEAN : SubmitLibraryServed(o, ok)
    \/ \E o \in ops, ok \in BOOLEAN : updateDailyTotals(o, ok)
    \/ \E m \in meals : \E i \in m.meal_items : handleDeleteItem(m.id, i.id)
    \/ \E o \in ops, ok \in BOOLEAN : DeleteItemServed(o, ok)
    \/ \E m \in MealIds(meals) : handleDeleteMeal(m)
    \/ \E o \in ops, ok \in BOOLEAN : DeleteMealItemsServed(o, ok)
    \/ \E o \in ops, ok \in BOOLEAN : DeleteMealRowServed(o, ok)
    \/ toggleLock
    \/ \E a \in WaterInputs : updateWaterIntake(a)
    \/ \E w \in pending, ok \in BOOLEAN : PersistServed(w, ok)

Spec == Init /\ [][Next]_vars

---------------------------------------------------------------------------
(* Meals page: properties *)

TotalsOf(row) ==
    [calories |-> row.total_calories, carbs |-> row.total_carbs, fat |-> row.total_fat,
     fiber |-> row.total_fiber, protein |-> row.total_protein, water |-> row.water_intake]

\* the steps that start a line-item mutation
LineItemGesture ==
    \/ handleAddMeal
    \/ \E m \in MealIds(meals) : handleAddItemToMeal(m)
    \/ \E in \in FormInputs : onSubmit(in[1], in[2])
    \/ \E m \in meals : \E i \in m.meal_items : handleDeleteItem(m.id, i.id)
    \/ \E m \in MealIds(meals) : handleDeleteMeal(m)

\* the steps of the line-item recomputation path
LineItemStep ==
    \/ \E m \in meals : \E i \in m.meal_items : handleDeleteItem(m.id, i.id)
    \/ \E m \in MealIds(meals) : handleDeleteMeal(m)
    \/ \E o \in ops, ok \in BOOLEAN : updateDailyTotals(o, ok)
    \/ \E w \in pending, ok \in BOOLEAN : w.kind = "totals" /\ PersistServed(w, ok)

\* the store refuses a delete request of handler o
DeleteFailed(o) ==
    \/ DeleteItemServed(o, FALSE)
    \/ DeleteMealItemsServed(o, FALSE)
    \/ DeleteMealRowServed(o, FALSE)

\* handler o has moved on to the re-fetch of updateDailyTotals
Refetching(o) == [o EXCEPT !.phase = "refetch"]

\* C2: whenever the background write of recomputed totals fails, a full
\* re-fetch of the day's meals is triggered (some handler enters the select
\* of updateDailyTotals), which would replace the in-memory collection.
C2_TotalsWriteFailureRefetches ==
    [][\A w \in pending :
          (w.kind = "totals" /\ PersistServed(w, FALSE))
             => \E o \in ops' : o.phase = "refetch" /\ o \notin ops]_vars

\* C3: the water intake is independent of the line-item recomputation path:
\* no step of that path (optimistic delete of an item or a meal, the end of
\* updateDailyTotals, the totals write reaching the store) changes the
\* in-memory or the persisted water_intake.
C3_WaterUntouchedByLineItems ==
    [][LineItemStep => /\ dailyLog'.water_intake = dailyLog.water_intake
                       /\ db_daily_log'.water_intake = db_daily_log.water_intake]_vars

\* C4: in every state where the in-memory isLocked is true, no line-item
\* mutation (add meal, open or submit an item form of any kind, delete item,
\* delete meal) can be started.
C4_LockedNoLineItemMutation ==
    [][isLocked => ~LineItemGesture]_vars

\* the user has locked a day that shows a meal with items, and still has
\* gestures left
C4_Witness ==
    /\ isLocked
    /\ LockWrite(TRUE) \in pending
    /\ AllItems(meals) # {}
    /\ gestures < MaxGestures

\* C5 (as stated): in every state with isLocked true a direct water edit is
\* still accepted and the lock toggle is still enabled.
C5_LockedWaterEditable ==
    (isLocked /\ gestures < MaxGestures)
        => /\ ENABLED (\E a \in WaterInputs : updateWaterIntake(a))
           /\ ENABLED toggleLock

\* C5 (amended): while isLocked is true the water intake is read-only (no
\* water edit can be started), and the lock toggle stays enabled.
C5_LockedWaterReadOnly ==
    /\ [][isLocked => ~(\E a \in WaterInputs : updateWaterIntake(a))]_vars
    /\ []((isLocked /\ gestures < MaxGestures) => ENABLED toggleLock)

\* the user has just locked the day: the water intake is shown read-only and
\* the lock toggle is still rendered
C5_Witness ==
    /\ isLocked
    /\ LockWrite(TRUE) \in pending
    /\ ~WaterControlsShown(isLocked)
    /\ LockToggleShown
    /\ gestures < MaxGestures

\* C6: if the store delete of a line item or of a meal fails, the failure
\* path starts a full re-fetch; when that re-fetch is served, the in-memory
\* meals equal the store's meals and items of the day, and the in-memory
\* totals are the aggregate of the re-fetched items.
C6_DeleteFailureRefetches ==
    /\ [][\A o \in ops : DeleteFailed(o) => Refetching(o) \in ops']_vars
    /\ [][\A o \in ops :
            (o.kind \in {"delItem", "delMeal"} /\ updateDailyTotals(o, TRUE))
               => /\ meals' = SelectMeals'
                  /\ TotalsOf(dailyLog') = calculateDailyTotals(meals')]_vars

\* one gesture (a delete), its optimistic totals write and the totals write of
\* the re-fetch that followed the refused delete: the removed entry is back
C6_Witness ==
    /\ gestures = 1
    /\ ops = {}
    /\ Cardinality({ w \in pending : w.kind = "totals" }) = 2
    /\ Cardinality(AllItems(meals)) = Cardinality(StoredItems)
    /\ meals = SelectMeals

\* C7: the delete of a meal row is issued only by the step in which the
\* delete of the meal's child items succeeded; if the child delete fails,
\* the meal-row delete is not issued, the meal row stays in the store and the
\* handler goes on to the re-fetch.
C7_ChildrenBeforeMeal ==
    /\ [][\A o \in ops' :
            (o.kind = "delMeal" /\ o.phase = "meal" /\ o \notin ops)
               => \E p \in ops : /\ p.kind = "delMeal" /\ p.phase = "items"
                                 /\ o = [p EXCEPT !.phase = "meal"]
                                 /\ DeleteMealItemsServed(p, TRUE)
                                 /\ \A i \in db_meal_items' : i.meal_id # p.meal]_vars
    /\ [][\A p \in ops :
            DeleteMealItemsServed(p, FALSE)
               => /\ [p EXCEPT !.phase = "meal"] \notin ops'
                  /\ Refetching(p) \in ops'
                  /\ db_meals' = db_meals]_vars

\* the child delete of a meal was refused: the handler is re-fetching, the
\* meal row and its items are still stored
C7_Witness ==
    \E o \in ops : /\ o.kind = "delMeal" /\ o.phase = "refetch"
                   /\ o.meal \in MealIds(db_meals)
                   /\ \E i \in db_meal_items : i.meal_id = o.meal


\* a water edit (- 8 oz, + 8 oz or a value typed into the field) is accepted
WaterEdit == \E newAmount \in WaterInputs : updateWaterIntake(newAmount)

\* C18: updateWaterIntake with a negative amount does nothing (no change of
\* the daily log in memory, no write); an accepted water edit sets the
\* amount rounded to one decimal place (amounts are in hundredths, the water
\* intake in tenths) and issues its write; the water intake, in memory and
\* stored, is never negative.
C18_NegativeWaterRejected ==
    /\ [](dailyLog.water_intake >= 0 /\ db_daily_log.water_intake >= 0)
    /\ [](\A newAmount \in WaterInputs :
             newAmount < 0 => ~ENABLED updateWaterIntake(newAmount))
    /\ [][WaterEdit =>
             \E newAmount \in WaterInputs :
                 /\ newAmount >= 0
                 /\ dailyLog'.water_intake = (newAmount + 5) \div 10
                 /\ WaterWrite((newAmount + 5) \div 10) \in pending']_vars

\* 7.95 oz was typed into the field of an unlocked day: the log in memory
\* holds 8.0, its write is under way and a further edit can be made
C18_Witness ==
    /\ dailyLog.water_intake = 80
    /\ WaterWrite(80) \in pending
    /\ ~isLocked
    /\ gestures < MaxGestures
    /\ ENABLED updateWaterIntake(4)


\* the delete handlers that reach their first delete request in this step
DeleteIssued == { o \in ops' \ ops : o.phase \in {"delete", "items"} }

\* C19: when a delete of a line item or of a meal issues its delete request,
\* the entry is already out of the meals in memory and the totals in memory
\* are those of the remaining meals, while the store still holds the rows;
\* and rows leave the store only on a request issued in an earlier step.
C19_RemovedInMemoryBeforeDeleteRequest ==
    [][/\ \A o \in DeleteIssued :
             /\ o.kind = "delItem" =>
                   \A meal \in meals' : \A item \in meal.meal_items : item.id # o.item.id
             /\ o.kind = "delMeal" => o.meal \notin MealIds(meals')
             /\ TotalsOf(dailyLog') = calculateDailyTotals(meals')
             /\ db_meals' = db_meals
             /\ db_meal_items' = db_meal_items
       /\ (db_meal_items' # db_meal_items /\ db_meal_items' \subseteq db_meal_items)
             => \E o \in ops : o.kind \in {"delItem", "delMeal"}
                                /\ o.phase \in {"delete", "items", "meal"}]_vars

\* the delete request of an item is under way: the item is out of the meals
\* in memory, the totals in memory are those of what is left, the row is stored
C19_Witness ==
    \E o \in ops :
        /\ o.kind = "delItem" /\ o.phase = "delete"
        /\ \E row \in db_meal_items : row.id = o.item.id
        /\ \A meal \in meals : \A item \in meal.meal_items : item.id # o.item.id
        /\ TotalsOf(dailyLog) = calculateDailyTotals(meals)
        /\ TotalsOf(db_daily_log) # TotalsOf(dailyLog)


\* the gestures that mutate line items: submitting an item form (food,
\* recipe or note), deleting an item, deleting a meal with its items
ItemMutationGesture ==
    \/ \E in \in FormInputs : onSubmit(in[1], in[2])
    \/ \E m \in meals : \E i \in m.meal_items : handleDeleteItem(m.id, i.id)
    \/ \E m \in MealIds(meals) : handleDeleteMeal(m)

\* C20: every line-item mutation, adding an item included, shows in the
\* meals in memory in the step of the gesture, before any request of the
\* mutation has been served by the store.
C20_EveryItemMutationOptimistic ==
    [][ItemMutationGesture => meals' # meals]_vars

\* the five nutrient totals of a daily_logs row
NutrientTotalsOf(row) ==
    [calories |-> row.total_calories, carbs |-> row.total_carbs, fat |-> row.total_fat,
     fiber |-> row.total_fiber, protein |-> row.total_protein]

\* the five nutrient sums of a set of items
NutrientSums(items) ==
    [f \in {"calories", "carbs", "fat", "fiber", "protein"} |-> SumItems(items)[f]]

\* C24: once no handler is suspended and no background write is under way,
\* the nutrient totals stored on the daily log are the sums of the meal items
\* stored for the day.
C24_StoredTotalsMatchStoredItems ==
    (ops = {} /\ pending = {})
        => NutrientTotalsOf(db_daily_log) = NutrientSums(db_meal_items)

\* C25: toggleLock negates is_locked of the log in memory in its own step and
\* changes nothing else of it, nor the meals; it issues one write, of
\* is_locked only, which changes no other column when the store applies it;
\* when the store refuses it, nothing in memory changes and no re-fetch starts.
C25_ToggleLockIndependentFlip ==
    /\ [][toggleLock =>
             /\ dailyLog' = [dailyLog EXCEPT !.is_locked = ~dailyLog.is_locked]
             /\ meals' = meals
             /\ db_daily_log' = db_daily_log
             /\ \E w \in pending' :
                    /\ pending' = pending \cup {w}
                    /\ w.kind = "lock" /\ w.is_locked = ~dailyLog.is_locked]_vars
    /\ [][\A w \in pending :
             (w.kind = "lock" /\ PersistServed(w, TRUE))
                => db_daily_log' = [db_daily_log EXCEPT !.is_locked = w.is_locked]]_vars
    /\ [][\A w \in pending :
             (w.kind = "lock" /\ PersistServed(w, FALSE))
                => /\ dailyLog' = dailyLog
                   /\ meals' = meals
                   /\ ops' = ops
                   /\ db_daily_log' = db_daily_log]_vars

\* the write of a lock toggle was refused: the log in memory stays flipped,
\* the stored row is as it was, nothing is under way
C25_Witness ==
    /\ gestures = 1
    /\ pending = {}
    /\ ops = {}
    /\ dailyLog.is_locked # db_daily_log.is_locked
    /\ TotalsOf(dailyLog) = TotalsOf(db_daily_log)

\* the steps that complete a line-item mutation in memory: the optimistic
\* delete of an item or of a meal, and the re-fetch of updateDailyTotals
\* that follows an add or a refused delete
MutationCompleted ==
    \/ \E m \in meals : \E i \in m.meal_items : handleDeleteItem(m.id, i.id)
    \/ \E m \in MealIds(meals) : handleDeleteMeal(m)
    \/ \E o \in ops : updateDailyTotals(o, TRUE)

\* C26: after each of these steps the totals of calories, protein, carbs, fat
\* and fiber of the log in memory are the sums over all items of the meals in
\* memory.
C26_TotalsInMemoryAreSumOfItems ==
    [][MutationCompleted =>
          NutrientTotalsOf(dailyLog') = NutrientSums(UNION { m.meal_items : m \in meals' })]_vars

\* an added item has come back with the re-fetch: the meals in memory hold
\* more items than the stored day started with, and the totals are their sums
C26_Witness ==
    /\ ops = {}
    /\ Cardinality(UNION { m.meal_items : m \in meals }) > Cardinality(StoredItems)
    /\ NutrientTotalsOf(dailyLog) = NutrientSums(UNION { m.meal_items : m \in meals })
    /\ dailyLog.total_calories > 135

\* C28: the end of updateDailyTotals, whichever handler it completes, leaves
\* is_locked of the log in memory as it was before the step (the value of
\* the last toggle).
C28_CompletionKeepsLockFlag ==
    [][\A o \in ops :
          updateDailyTotals(o, TRUE) => dailyLog'.is_locked = dailyLog.is_locked]_vars


\* C29: when the insert of a food item has succeeded, the save goes on to
\* the re-fetch of updateDailyTotals whatever the answer of the food-library
\* requests that follow.
C29_SaveCompletesAfterInsert ==
    [][\A o \in ops : \A ok \in BOOLEAN :
          SubmitLibraryServed(o, ok) => Refetching(o) \in ops']_vars

====
